---- MODULE Spec2Model ----
(***************************************************************************)
(* A model of eventloop.py: Task, the schedule descriptors Timeout,        *)
(* Interval and Countdown, and EventLoop with its tick (loop) and          *)
(* loop_forever.  Time is the integer value of time.monotonic().           *)
(*                                                                         *)
(* One tick is the steps LoopHead (_schedule_tasks, the sort and the       *)
(* slice), CallTask once per Task of the slice, LoopEnd (the pruning) and  *)
(* Return; the clock may advance between any two of them.                  *)
(*                                                                         *)
(* The program around the event loop comes in two kinds:                   *)
(*   Spec       it creates Tasks, appends them to event_loop.tasks in any  *)
(*              order and calls loop or loop_forever;                      *)
(*   SchedSpec  it registers Timeouts, Intervals and Countdowns, drives    *)
(*              the Countdowns and calls loop.                             *)
(* FairSpec is Spec with loop_forever never halting between its steps.     *)
(* Five more programs look at one feature each:                            *)
(*   CountdownSpec  one Countdown, paused, resumed, reset and restarted;   *)
(*   CancelSpec     Tasks cancelled between ticks and from inside a step;  *)
(*   InterruptSpec  KeyboardInterrupt raised while loop_forever runs;      *)
(*   GeneratorSpec  Tasks of functions that raise nothing, stepped by      *)
(*                  loop;                                                  *)
(*   StallSpec      a blocking Interval whose Task is cancelled.           *)
(*                                                                         *)
(* Two more objects stand beside the event loop:                           *)
(*   ButtonSpec  a debounced button of pin_debounced_button.py and a       *)
(*               wait_for_hold call on it;                                 *)
(*   QuerySpec   the same button with its clicked and released             *)
(*               properties read as well;                                  *)
(*   TiltSpec    BNO055_Tilt_Direction.from_acceleration of                *)
(*               bno055_tilt_direction.py applied to a reading.            *)
(***************************************************************************)
EXTENDS Integers, Sequences, FiniteSets, TLC

\* ------------------------------------------------------------------ bounds
MaxTime == 2        \* the monotonic clock runs over 0..MaxTime
MaxTasks == 2       \* Task ids issued by Task._id_generator
MaxSchedules == 2   \* _Schedule ids issued by _Schedule._id_generator
MaxDuration == 1    \* timeout / interval / timer arguments are 0..MaxDuration
MaxLimit == 1       \* loop(limit) is None or 1..MaxLimit
MaxTolerance == 2   \* from_acceleration's tolerance is None or 1..MaxTolerance
MaxYields == 2      \* the generator functions of GeneratorSpec have 0..MaxYields yields

\* Python's None, for the nullable fields
None == -100
\* the state of a generator object that has returned or raised
Exhausted == -1

Priorities == {0, 1}
Durations == 0..MaxDuration
Limits == {None} \cup (1..MaxLimit)

\* A function handed to a Task: a plain callable or a generator function with
\* `yields` suspension points; err = e > 0 makes the e-th segment of the body
\* raise an Exception (err = 0: no error).  A plain callable has one segment.
PlainFunction == [gen |-> FALSE, yields |-> 0, err |-> 0]
FailingFunction == [gen |-> FALSE, yields |-> 0, err |-> 1]
GeneratorFunction == [gen |-> TRUE, yields |-> 1, err |-> 0]
FailingGenerator == [gen |-> TRUE, yields |-> 1, err |-> 1]

\* the functions of the Tasks the program adds itself
Functions == {PlainFunction, FailingFunction, GeneratorFunction, FailingGenerator}
\* the functions the program registers with a schedule descriptor
ScheduledFunctions == {PlainFunction, GeneratorFunction}
\* a plain function and the generator functions that raise no error
ErrorFreeFunctions ==
    {PlainFunction} \cup { [gen |-> TRUE, yields |-> k, err |-> 0] : k \in 0..MaxYields }

VARIABLES
    now,          \* time.monotonic()
    taskObj,      \* every Task object created so far, taskObj[i].id = i
    schedObj,     \* every _Schedule object created so far, schedObj[i].id = i
    tasks,        \* EventLoop.tasks: sequence of Task ids
    schedules,    \* EventLoop.schedules: sequence of _Schedule ids
    pc,           \* where the program is: "idle", "top" (loop_forever's while),
                  \* "call" (loop's for), "return" (loop is returning or raising)
    run,          \* the call in progress: [forever, raise_errors, limit]
    slice,        \* the list self.tasks[:limit] the for statement of loop() iterates
    idx,          \* position of that iteration
    obs,          \* what an observer of the last tick saw (history, not program state)
    button,       \* a debounced button, its pin and the blocking call made on it
    tilt          \* an accelerometer reading and the Direction computed from it

vars == <<now, taskObj, schedObj, tasks, schedules, pc, run, slice, idx, obs, button, tilt>>

Range(s) == { s[i] : i \in 1..Len(s) }

RemoveAt(s, i) == SubSeq(s, 1, i - 1) \o SubSeq(s, i + 1, Len(s))

Max(a, b) == IF a >= b THEN a ELSE b

\* Python's `x or 0` on a number or None
OrZero(x) == IF x = None THEN 0 ELSE x

\* ------------------------------------------------------------------- Task

\* Task.__init__; producer, cancelled and steps are history: the schedule whose
\* .task made it (0: none), whether an EventLoop.cancel of its id has returned,
\* and the number of steps loop() gave it up to its completion (kept for the
\* functions that raise no error)
NewTask(id, function, priority, t, producer) ==
    [ id |-> id, function |-> function, priority |-> priority,
      time_created |-> t, time_started |-> None, time_completed |-> None,
      started |-> FALSE, completed |-> FALSE, current_call |-> None,
      producer |-> producer, cancelled |-> FALSE, steps |-> 0 ]

\* next(generator): the outcome and the generator's state afterwards.
\* g is the number of segments already run, or Exhausted.
GenNext(f, g) ==
    IF g = Exhausted THEN [outcome |-> "stop", g |-> Exhausted]
    ELSE IF f.err = g + 1 THEN [outcome |-> "error", g |-> Exhausted]
    ELSE IF g = f.yields THEN [outcome |-> "stop", g |-> Exhausted]
    ELSE [outcome |-> "yield", g |-> g + 1]

\* The first branch of Task.call: a call is in progress.  The finally: return
\* discards whatever next() raised.
CallResume(task, t) ==
    LET r == GenNext(task.function, task.current_call) IN
    IF r.outcome = "stop"
    THEN [ task |-> [task EXCEPT !.current_call = None, !.completed = TRUE,
                                 !.time_completed = t],
           raised |-> FALSE, fault |-> FALSE ]
    ELSE [ task |-> [task EXCEPT !.current_call = r.g],
           raised |-> FALSE, fault |-> (r.outcome = "error") ]

\* mutant of TaskCall: starting a generator does not run it to its first yield
TaskCall_StartOnly(task, t) ==
    IF task.current_call # None THEN CallResume(task, t)
    ELSE LET st == [task EXCEPT !.started = TRUE, !.time_started = t] IN
         IF st.function.gen
         THEN [ task |-> [st EXCEPT !.current_call = 0], raised |-> FALSE,
                fault |-> FALSE ]
         ELSE IF st.function.err = 1
              THEN [ task |-> st, raised |-> TRUE, fault |-> TRUE ]
              ELSE [ task |-> [st EXCEPT !.completed = TRUE, !.time_completed = t],
                     raised |-> FALSE, fault |-> FALSE ]

\* Task.call at time t.  raised: an exception leaves call(); fault: the body of
\* the function raised an error in this step.
TaskCall(task, t) ==
    IF task.current_call # None THEN CallResume(task, t)
    ELSE LET st == [task EXCEPT !.started = TRUE, !.time_started = t] IN
         IF st.function.gen
         THEN CallResume([st EXCEPT !.current_call = 0], t)
         ELSE IF st.function.err = 1
              THEN [ task |-> st, raised |-> TRUE, fault |-> TRUE ]
              ELSE [ task |-> [st EXCEPT !.completed = TRUE, !.time_completed = t],
                     raised |-> FALSE, fault |-> FALSE ]

\* Task.call at time t with a KeyboardInterrupt raised while the body of the
\* function runs.  A generator it is raised in has finished; the finally: return
\* of the first branch discards it like any other exception, and a plain
\* function has no handler around it.
TaskCallInterrupted(task, t) ==
    IF task.current_call # None
    THEN [ task |-> [task EXCEPT !.current_call = Exhausted], raised |-> FALSE ]
    ELSE LET st == [task EXCEPT !.started = TRUE, !.time_started = t] IN
         IF st.function.gen
         THEN [ task |-> [st EXCEPT !.current_call = Exhausted], raised |-> FALSE ]
         ELSE [ task |-> st, raised |-> TRUE ]

\* mutant of TaskGt: the priorities compared the wrong way round
TaskGt_LowPriorityFirst(a, b) ==
    IF a.priority = b.priority
    THEN a.time_created < b.time_created
    ELSE a.priority < b.priority

\* mutant of TaskGt: the creation times compared the wrong way round
TaskGt_NewestFirst(a, b) ==
    IF a.priority = b.priority
    THEN a.time_created > b.time_created
    ELSE b.priority < a.priority

\* Task.__gt__
TaskGt(a, b) ==
    IF a.priority = b.priority
    THEN a.time_created < b.time_created
    ELSE b.priority < a.priority

\* list.sort(reverse=True) on Tasks: a stable descending sort.  x < y is
\* evaluated as y.__gt__(x), Task defining no __lt__.
RECURSIVE InsertDesc(_, _, _)
InsertDesc(sorted, id, objs) ==
    IF sorted = <<>> THEN <<id>>
    ELSE IF TaskGt(objs[id], objs[Head(sorted)])
         THEN <<id>> \o sorted
         ELSE <<Head(sorted)>> \o InsertDesc(Tail(sorted), id, objs)

RECURSIVE SortReverse(_, _)
SortReverse(list, objs) ==
    IF list = <<>> THEN <<>>
    ELSE InsertDesc(SortReverse(SubSeq(list, 1, Len(list) - 1), objs),
                    list[Len(list)], objs)

\* ------------------------------------------------------ schedule descriptors

WAITING == "waiting"
PAUSED == "paused"
COMPLETED == "completed"

\* _Schedule.__init__: the fields every descriptor has; the fields of the
\* other kinds are None.  (Field names drop the source's leading underscore.)
Schedule(id, kind, function, priority, t) ==
    [ id |-> id, kind |-> kind, function |-> function, priority |-> priority,
      time_created |-> t,
      timeout |-> None,
      interval |-> None, blocking |-> FALSE, blocking_task |-> None,
      time_last_called |-> None,
      initial_timer |-> None, time_to_run_at |-> None, timer |-> None,
      state |-> None,
      touched |-> FALSE,    \* history: pause() or resume() was called on it while COMPLETED
      paused_eta |-> None ] \* history: eta just before the pause() that took effect last,
                            \* None when none did since construction, reset() or the firing

\* Timeout.__init__
Timeout(id, function, timeout, priority, t) ==
    [Schedule(id, "Timeout", function, priority, t) EXCEPT !.timeout = timeout]

\* Interval.__init__
Interval(id, function, interval, priority, blocking, immediate, t) ==
    [Schedule(id, "Interval", function, priority, t) EXCEPT
        !.interval = interval, !.blocking = blocking,
        !.time_last_called = IF immediate THEN None ELSE t]

\* Countdown.__init__; its resume() returns at once, the state being WAITING
Countdown(id, function, timer, priority, t) ==
    [Schedule(id, "Countdown", function, priority, t) EXCEPT
        !.initial_timer = timer, !.time_to_run_at = t + timer, !.state = WAITING]

\* Timeout.eta
TimeoutEta(s, t) == Max(0, s.time_created + s.timeout - t)

\* mutant of IntervalEta: no floor at 0
IntervalEta_NoFloor(s, t) == OrZero(s.time_last_called) + s.interval - t

\* Interval.eta
IntervalEta(s, t) == Max(0, OrZero(s.time_last_called) + s.interval - t)

\* Countdown.eta
CountdownEta(s, t) ==
    IF s.state # WAITING THEN None ELSE Max(0, s.time_to_run_at - t)

\* schedule.eta for any descriptor
Eta(s, t) ==
    CASE s.kind = "Timeout" -> TimeoutEta(s, t)
      [] s.kind = "Interval" -> IntervalEta(s, t)
      [] s.kind = "Countdown" -> CountdownEta(s, t)

\* mutant of IntervalReady: the blocking Task is not looked at
IntervalReady_NotBlocking(s, objs, t) ==
    [ready |-> IntervalEta(s, t) = 0, sched |-> s]

\* Interval.ready: the answer and the descriptor as the property leaves it
IntervalReady(s, objs, t) ==
    IF s.blocking /\ s.blocking_task # None
    THEN IF ~objs[s.blocking_task].completed
         THEN [ready |-> FALSE, sched |-> s]
         ELSE LET s2 == [s EXCEPT
                           !.time_last_called = objs[s.blocking_task].time_completed,
                           !.blocking_task = None]
              IN [ready |-> IntervalEta(s2, t) = 0, sched |-> s2]
    ELSE [ready |-> IntervalEta(s, t) = 0, sched |-> s]

\* Countdown.ready
CountdownReady(s, t) ==
    IF s.state # WAITING THEN FALSE ELSE CountdownEta(s, t) = 0

\* schedule.ready for any descriptor
Ready(s, objs, t) ==
    CASE s.kind = "Timeout" -> [ready |-> TimeoutEta(s, t) = 0, sched |-> s]
      [] s.kind = "Interval" -> IntervalReady(s, objs, t)
      [] s.kind = "Countdown" -> [ready |-> CountdownReady(s, t), sched |-> s]

\* Interval.task, the new Task having id tid
IntervalTask(s, tid, t) ==
    [s EXCEPT !.time_last_called = t,
              !.blocking_task = IF s.blocking THEN tid ELSE @]

\* Countdown.task
CountdownTask(s) ==
    [s EXCEPT !.state = COMPLETED, !.time_to_run_at = None, !.touched = FALSE,
              !.paused_eta = None]

\* schedule.task for any descriptor: the descriptor as the property leaves it,
\* the new Task having id tid (_Schedule.task, which Timeout inherits, changes nothing)
ScheduleTask(s, tid, t) ==
    CASE s.kind = "Timeout" -> s
      [] s.kind = "Interval" -> IntervalTask(s, tid, t)
      [] s.kind = "Countdown" -> CountdownTask(s)

\* mutant of Pause: no check of the state
Pause_AnyState(s, t) ==
    [s EXCEPT !.state = PAUSED, !.timer = s.time_to_run_at - t,
              !.time_to_run_at = None]

\* Countdown.pause
Pause(s, t) ==
    IF s.state # WAITING THEN [s EXCEPT !.touched = (s.state = COMPLETED)]
    ELSE [s EXCEPT !.state = PAUSED, !.timer = s.time_to_run_at - t,
                   !.time_to_run_at = None]

\* mutant of Resume: the timer of construction instead of the remaining time
Resume_InitialTimer(s, t) ==
    IF s.state # PAUSED THEN [s EXCEPT !.touched = (s.state = COMPLETED)]
    ELSE [s EXCEPT !.state = WAITING, !.time_to_run_at = t + s.initial_timer,
                   !.timer = None]

\* Countdown.resume
Resume(s, t) ==
    IF s.state # PAUSED THEN [s EXCEPT !.touched = (s.state = COMPLETED)]
    ELSE [s EXCEPT !.state = WAITING, !.time_to_run_at = t + s.timer,
                   !.timer = None]

\* mutant of Reset: the remaining time is left as it was
Reset_KeepTimer(s) ==
    [s EXCEPT !.state = PAUSED, !.time_to_run_at = None, !.paused_eta = None]

\* Countdown.reset
Reset(s) ==
    [s EXCEPT !.state = PAUSED, !.timer = s.initial_timer, !.time_to_run_at = None,
              !.paused_eta = None]

\* Countdown.restart
Restart(s, t) == Resume(Reset(s), t)

\* ------------------------------------------------- bno055_tilt_direction.py

\* Accelerations are integers in units of 1/300 m/s^2, in which
\* 9.68 * (2 / 6) is the whole number below.
DEFAULT_TOLERANCE == 968

\* 9.68 m/s^2, the Earth gravity of the source
Gravity == 3 * DEFAULT_TOLERANCE

\* class Direction: the 26 labels and UNKNOWN
Direction ==
    [ AWAY |-> "away", AWAY_DOWN |-> "away_down",
      AWAY_DOWN_LEFT |-> "away_down_left", AWAY_DOWN_RIGHT |-> "away_down_right",
      AWAY_LEFT |-> "away_left", AWAY_LEFT_UP |-> "away_left_up",
      AWAY_RIGHT |-> "away_right", AWAY_RIGHT_UP |-> "away_right_up",
      AWAY_UP |-> "away_up", DOWN |-> "down", DOWN_LEFT |-> "down_left",
      DOWN_LEFT_TOWARDS |-> "down_left_towards", DOWN_RIGHT |-> "down_right",
      DOWN_RIGHT_TOWARDS |-> "down_right_towards", DOWN_TOWARDS |-> "down_towards",
      LEFT |-> "left", LEFT_TOWARDS |-> "left_towards",
      LEFT_TOWARDS_UP |-> "left_towards_up", LEFT_UP |-> "left_up",
      RIGHT |-> "right", RIGHT_TOWARDS |-> "right_towards",
      RIGHT_TOWARDS_UP |-> "right_towards_up", RIGHT_UP |-> "right_up",
      TOWARDS |-> "towards", TOWARDS_UP |-> "towards_up", UP |-> "up",
      UNKNOWN |-> "unknown" ]

\* mutant of ThreeZones: the upper zone begins above the tolerance
ThreeZones_StrictUpper(v, tolerance, upper, middle, lower) ==
    IF tolerance < v THEN upper
    ELSE IF -tolerance < v /\ v < tolerance THEN middle
    ELSE IF v <= -tolerance THEN lower
    ELSE Direction.UNKNOWN

\* The if / elif / elif statement from_acceleration applies to each axis; when
\* no branch is taken control reaches the last line, return Direction.UNKNOWN.
ThreeZones(v, tolerance, upper, middle, lower) ==
    IF tolerance <= v THEN upper
    ELSE IF -tolerance < v /\ v < tolerance THEN middle
    ELSE IF v <= -tolerance THEN lower
    ELSE Direction.UNKNOWN

\* Python's `tolerance or DEFAULT_TOLERANCE`
OrDefaultTolerance(tolerance) ==
    IF tolerance = None \/ tolerance = 0 THEN DEFAULT_TOLERANCE ELSE tolerance

\* BNO055_Tilt_Direction.from_acceleration
FromAcceleration(x, y, z, tolerance) ==
    LET t == OrDefaultTolerance(tolerance)
        D == Direction
    IN ThreeZones(x, t,
         ThreeZones(y, t,
           ThreeZones(z, t, D.LEFT_TOWARDS_UP, D.LEFT_TOWARDS, D.DOWN_LEFT_TOWARDS),
           ThreeZones(z, t, D.LEFT_UP, D.LEFT, D.DOWN_LEFT),
           ThreeZones(z, t, D.AWAY_LEFT_UP, D.AWAY_LEFT, D.AWAY_DOWN_LEFT)),
         ThreeZones(y, t,
           ThreeZones(z, t, D.TOWARDS_UP, D.TOWARDS, D.DOWN_TOWARDS),
           ThreeZones(z, t, D.UP, D.UNKNOWN, D.DOWN),
           ThreeZones(z, t, D.AWAY_UP, D.AWAY, D.AWAY_DOWN)),
         ThreeZones(y, t,
           ThreeZones(z, t, D.RIGHT_TOWARDS_UP, D.RIGHT_TOWARDS, D.DOWN_RIGHT_TOWARDS),
           ThreeZones(z, t, D.RIGHT_UP, D.RIGHT, D.DOWN_RIGHT),
           ThreeZones(z, t, D.AWAY_RIGHT_UP, D.AWAY_RIGHT, D.AWAY_DOWN_RIGHT)))

\* no Direction computed yet
NoDirection == "none"

\* a reading (x, y, z), the tolerance argument and the Direction returned
Reading(x, y, z, tolerance) ==
    [x |-> x, y |-> y, z |-> z, tolerance |-> tolerance, direction |-> NoDirection]

NoReading == Reading(0, 0, 0, None)

\* the tolerance arguments: None (the default) or a positive number
Tolerances == {None} \cup (1..MaxTolerance)

\* the values of one axis: on, next to and far from every tolerance, both signs
AxisValues ==
    {-Gravity, -DEFAULT_TOLERANCE, 1 - DEFAULT_TOLERANCE}
        \cup (-MaxTolerance..MaxTolerance)
        \cup {DEFAULT_TOLERANCE - 1, DEFAULT_TOLERANCE, Gravity}

\* --------------------------------------------------- pin_debounced_button.py

\* `max_time or 1000000` of wait_for_hold
DefaultMaxTime == 1000000

\* A debounced button after construction, nothing called on it yet.
\*   pressed             what the `pressed` property reads from the pin
\*   call                where the wait_for_hold call in progress is: "idle" (no
\*                       call), "condition" (the while of _wait_for_condition is
\*                       about to evaluate its condition), "holding" (the while
\*                       of hold_time), "timeout" (the if statement after a false
\*                       condition), "returned"
\*   spin                parity of the iterations of hold_time's while (history)
\*   query, answer       the property read last, "clicked" or "released", and
\*                       the value it returned (history)
\*   pending             the pin became pressed when the most recent sample was
\*                       not pressed, has stayed pressed since, and clicked has
\*                       not been read since (history)
\*   owed                pending, as it was when clicked was read last (history)
NewButton ==
    [ pressed |-> FALSE,
      previously_pressed |-> FALSE, currently_pressed |-> FALSE,
      call |-> "idle", min_time |-> None, max_time |-> None, timeout |-> None,
      start_time |-> None, hold_start_time |-> None, result |-> FALSE,
      spin |-> 0,
      query |-> "none", answer |-> FALSE, pending |-> FALSE, owed |-> FALSE ]

\* _IDebouncedButton._update
Update(b) ==
    [b EXCEPT !.previously_pressed = b.currently_pressed,
              !.currently_pressed = b.pressed]

\* ---------------------------------------------------------------- EventLoop

\* mutant of RemoveFired: a Timeout that fired stays in the list
RemoveFired_Never(list, s, i) == list

\* if isinstance(schedule, Timeout): self.schedules.remove(schedule), the
\* descriptor s being at position i of the list
RemoveFired(list, s, i) ==
    IF s.kind = "Timeout" THEN RemoveAt(list, i) ELSE list

\* EventLoop._schedule_tasks from position i of the for statement on, on
\* st = [schedules, schedObj, tasks, taskObj] (examined and fired are history).
\* The list iterator keeps a position: after schedules.remove() of the
\* descriptor at position i the next descriptor examined is the one at i + 1
\* of the shortened list.
RECURSIVE ScheduleFrom(_, _, _)
ScheduleFrom(st, i, t) ==
    IF i > Len(st.schedules) THEN st
    ELSE LET sid == st.schedules[i]
             r == Ready(st.schedObj[sid], st.taskObj, t)
             tid == Len(st.taskObj) + 1
             seen == [st EXCEPT !.examined = @ \cup {sid}]
         IN IF ~r.ready
            THEN ScheduleFrom([seen EXCEPT !.schedObj[sid] = r.sched], i + 1, t)
            ELSE ScheduleFrom(
                    [seen EXCEPT
                       !.schedObj[sid] = ScheduleTask(r.sched, tid, t),
                       !.taskObj = Append(@, NewTask(tid, r.sched.function,
                                                     r.sched.priority, t, sid)),
                       !.tasks = Append(@, tid),
                       !.fired = @ \cup {sid},
                       !.schedules = RemoveFired(@, r.sched, i)],
                    i + 1, t)

\* EventLoop._schedule_tasks
ScheduleTasks(scheds, sobjs, tsks, tobjs, t) ==
    ScheduleFrom([schedules |-> scheds, schedObj |-> sobjs, tasks |-> tsks,
                  taskObj |-> tobjs, examined |-> {}, fired |-> {}], 1, t)

\* mutant of Slice: the limit is not applied
Slice_Everything(list, limit) == list

\* self.tasks[:limit]
Slice(list, limit) ==
    IF limit = None \/ limit >= Len(list) THEN list ELSE SubSeq(list, 1, limit)

\* [task for task in list if keep(task)]
RECURSIVE Filter(_, _)
Filter(list, keep) ==
    IF list = <<>> THEN <<>>
    ELSE IF Head(list) \in keep THEN <<Head(list)>> \o Filter(Tail(list), keep)
         ELSE Filter(Tail(list), keep)

NoRun == [forever |-> FALSE, raise_errors |-> TRUE, limit |-> None]

\* mutant of Cancel: the list is left as it was
Cancel_Nothing(list, task_ids) == list

\* EventLoop.cancel: [task for task in self.tasks if task.id not in task_ids]
Cancel(list, task_ids) == Filter(list, Range(list) \ task_ids)

\* cancelled: the Tasks cancelled during the tick; late: the Tasks stepped in
\* the tick after a cancel of their id had returned; interrupted: a
\* KeyboardInterrupt was raised during the tick; stopped: it reached the
\* except KeyboardInterrupt of loop_forever
NoObs == [ stepLog |-> <<>>, fault |-> 0, escaped |-> FALSE, presort |-> <<>>,
           examined |-> {}, fired |-> {}, readyAtStart |-> {}, tickTime |-> 0,
           raised |-> FALSE, cancelled |-> {}, late |-> {},
           interrupted |-> FALSE, stopped |-> FALSE ]

\* everything but the accelerometer after construction
Constructed ==
    /\ now = 0
    /\ taskObj = <<>>
    /\ schedObj = <<>>
    /\ tasks = <<>>
    /\ schedules = <<>>
    /\ pc = "idle"
    /\ run = NoRun
    /\ slice = <<>>
    /\ idx = 1
    /\ obs = NoObs
    /\ button = NewButton

Init ==
    /\ Constructed
    /\ tilt = NoReading

\* time passes
Advance ==
    /\ now < MaxTime
    /\ now' = now + 1
    /\ UNCHANGED <<taskObj, schedObj, tasks, schedules, pc, run, slice, idx, obs, button, tilt>>

\* @event_loop.timeout(timeout, priority=priority) applied to a function
EventLoop_timeout(f, timeout, priority) ==
    /\ pc = "idle"
    /\ Len(schedObj) < MaxSchedules
    /\ schedObj' = Append(schedObj, Timeout(Len(schedObj) + 1, f, timeout, priority, now))
    /\ schedules' = Append(schedules, Len(schedObj) + 1)
    /\ UNCHANGED <<now, taskObj, tasks, pc, run, slice, idx, obs, button, tilt>>

\* @event_loop.interval(interval, priority=, blocking=, immediate=) applied to a function
EventLoop_interval(f, interval, priority, blocking, immediate) ==
    /\ pc = "idle"
    /\ Len(schedObj) < MaxSchedules
    /\ schedObj' = Append(schedObj, Interval(Len(schedObj) + 1, f, interval, priority,
                                             blocking, immediate, now))
    /\ schedules' = Append(schedules, Len(schedObj) + 1)
    /\ UNCHANGED <<now, taskObj, tasks, pc, run, slice, idx, obs, button, tilt>>

\* event_loop.schedules.append(Countdown(f, timer, priority=priority))
AppendCountdown(f, timer, priority) ==
    /\ pc = "idle"
    /\ Len(schedObj) < MaxSchedules
    /\ schedObj' = Append(schedObj, Countdown(Len(schedObj) + 1, f, timer, priority, now))
    /\ schedules' = Append(schedules, Len(schedObj) + 1)
    /\ UNCHANGED <<now, taskObj, tasks, pc, run, slice, idx, obs, button, tilt>>

Countdowns == { c \in 1..Len(schedObj) : schedObj[c].kind = "Countdown" }

Countdown_pause(c) ==
    /\ pc = "idle"
    /\ schedObj' = [schedObj EXCEPT ![c] =
                       IF @.state = WAITING
                       THEN [Pause(@, now) EXCEPT !.paused_eta = CountdownEta(schedObj[c], now)]
                       ELSE Pause(@, now)]
    /\ UNCHANGED <<now, taskObj, tasks, schedules, pc, run, slice, idx, obs, button, tilt>>

Countdown_resume(c) ==
    /\ pc = "idle"
    /\ schedObj' = [schedObj EXCEPT ![c] = Resume(@, now)]
    /\ UNCHANGED <<now, taskObj, tasks, schedules, pc, run, slice, idx, obs, button, tilt>>

Countdown_reset(c) ==
    /\ pc = "idle"
    /\ schedObj' = [schedObj EXCEPT ![c] = Reset(@)]
    /\ UNCHANGED <<now, taskObj, tasks, schedules, pc, run, slice, idx, obs, button, tilt>>

Countdown_restart(c) ==
    /\ pc = "idle"
    /\ schedObj' = [schedObj EXCEPT ![c] = Restart(@, now)]
    /\ UNCHANGED <<now, taskObj, tasks, schedules, pc, run, slice, idx, obs, button, tilt>>

\* Task(f, priority=priority), kept by the caller
CreateTask(f, priority) ==
    /\ pc = "idle"
    /\ Len(taskObj) < MaxTasks
    /\ taskObj' = Append(taskObj, NewTask(Len(taskObj) + 1, f, priority, now, 0))
    /\ UNCHANGED <<now, schedObj, tasks, schedules, pc, run, slice, idx, obs, button, tilt>>

\* event_loop.tasks.append(task) of a Task the caller created and has not added yet
AppendTask(id) ==
    /\ pc = "idle"
    /\ taskObj[id].producer = 0
    /\ ~taskObj[id].started
    /\ ~taskObj[id].cancelled
    /\ id \notin Range(tasks)
    /\ tasks' = Append(tasks, id)
    /\ UNCHANGED <<now, taskObj, schedObj, schedules, pc, run, slice, idx, obs, button, tilt>>

\* The head of EventLoop.loop: _schedule_tasks(), tasks.sort(reverse=True) and
\* the slice the for statement iterates
LoopHead(r) ==
    LET st == ScheduleTasks(schedules, schedObj, tasks, taskObj, now)
        sorted == SortReverse(st.tasks, st.taskObj)
    IN /\ Len(st.taskObj) <= MaxTasks
       /\ schedules' = st.schedules
       /\ schedObj' = st.schedObj
       /\ taskObj' = st.taskObj
       /\ tasks' = sorted
       /\ slice' = Slice(sorted, r.limit)
       /\ idx' = 1
       /\ pc' = "call"
       /\ run' = r
       /\ obs' = [ NoObs EXCEPT
                     !.presort = st.tasks, !.examined = st.examined,
                     !.fired = st.fired,
                     !.readyAtStart = { s \in Range(schedules) :
                                          Ready(schedObj[s], taskObj, now).ready },
                     !.tickTime = now ]
       /\ UNCHANGED <<now, button, tilt>>

\* event_loop.loop(limit) called by the program
Loop(limit) ==
    /\ pc = "idle"
    /\ LoopHead([forever |-> FALSE, raise_errors |-> TRUE, limit |-> limit])

\* event_loop.loop_forever(limit, raise_errors=raise_errors) called by the program
LoopForever(limit, raise_errors) ==
    /\ pc = "idle"
    /\ pc' = "top"
    /\ run' = [forever |-> TRUE, raise_errors |-> raise_errors, limit |-> limit]
    /\ UNCHANGED <<now, taskObj, schedObj, tasks, schedules, slice, idx, obs, button, tilt>>

\* loop_forever's while True: self.loop(limit)
ForeverTick ==
    /\ pc = "top"
    /\ LoopHead(run)

\* One iteration of loop's for statement: task.call().  An exception leaves
\* loop(); loop_forever swallows it unless raise_errors, and then it reaches
\* the program.
CallTask ==
    /\ pc = "call"
    /\ idx <= Len(slice)
    /\ LET id == slice[idx]
           r == TaskCall(taskObj[id], now)
       IN /\ taskObj' = [taskObj EXCEPT ![id] =
                            IF @.function.err = 0 /\ ~@.completed
                            THEN [r.task EXCEPT !.steps = @ + 1] ELSE r.task]
          /\ IF r.raised
             THEN /\ pc' = "return"
                  /\ obs' = [obs EXCEPT !.stepLog = Append(@, id), !.fault = id,
                                        !.raised = TRUE,
                                        !.escaped = ~run.forever \/ run.raise_errors,
                                        !.late = IF taskObj[id].cancelled
                                                 THEN @ \cup {id} ELSE @]
             ELSE /\ pc' = "call"
                  /\ obs' = [obs EXCEPT !.stepLog = Append(@, id),
                                        !.fault = IF r.fault THEN id ELSE 0,
                                        !.late = IF taskObj[id].cancelled
                                                 THEN @ \cup {id} ELSE @]
          /\ idx' = idx + 1
    /\ UNCHANGED <<now, schedObj, tasks, schedules, run, slice, button, tilt>>

\* The end of loop: the completed Tasks leave self.tasks
LoopEnd ==
    /\ pc = "call"
    /\ idx > Len(slice)
    /\ tasks' = Filter(tasks, { id \in Range(tasks) : ~taskObj[id].completed })
    /\ pc' = "return"
    /\ UNCHANGED <<now, taskObj, schedObj, schedules, run, slice, idx, obs, button, tilt>>

\* loop() is left, normally or by an exception: loop_forever goes round its
\* while statement unless the exception is to be raised or is a
\* KeyboardInterrupt (break); otherwise the program has control again
Return ==
    /\ pc = "return"
    /\ pc' = IF run.forever /\ ~obs.escaped /\ ~obs.stopped THEN "top" ELSE "idle"
    /\ run' = IF run.forever /\ ~obs.escaped /\ ~obs.stopped THEN run ELSE NoRun
    /\ slice' = <<>>
    /\ idx' = 1
    /\ obs' = NoObs
    /\ UNCHANGED <<now, taskObj, schedObj, tasks, schedules, button, tilt>>

\* event_loop.cancel(id) of a Task of the active set: called by the program
\* between ticks, or from inside the step a Task of the tick in progress has
\* just taken (the function of that Task holds the event loop and the id)
EventLoop_cancel(id) ==
    /\ pc = "idle" \/ (pc = "call" /\ idx > 1)
    /\ id \in Range(tasks)
    /\ tasks' = Cancel(tasks, {id})
    /\ taskObj' = [taskObj EXCEPT ![id].cancelled = TRUE]
    /\ obs' = IF pc = "call" THEN [obs EXCEPT !.cancelled = @ \cup {id}] ELSE obs
    /\ UNCHANGED <<now, schedObj, schedules, pc, run, slice, idx, button, tilt>>

\* A KeyboardInterrupt raised while loop_forever runs and the function of the
\* Task at hand is executing
KeyboardInterruptInStep ==
    /\ run.forever
    /\ pc = "call"
    /\ idx <= Len(slice)
    /\ LET id == slice[idx]
           r == TaskCallInterrupted(taskObj[id], now)
       IN /\ taskObj' = [taskObj EXCEPT ![id] = r.task]
          /\ pc' = IF r.raised THEN "return" ELSE "call"
          /\ obs' = [obs EXCEPT !.stepLog = Append(@, id), !.interrupted = TRUE,
                                !.stopped = r.raised]
          /\ idx' = idx + 1
    /\ UNCHANGED <<now, schedObj, tasks, schedules, run, slice, button, tilt>>

\* A KeyboardInterrupt raised while loop_forever runs code of its own or of
\* loop(): nothing handles it before the except KeyboardInterrupt
KeyboardInterruptElsewhere ==
    /\ run.forever
    /\ pc \in {"top", "call"}
    /\ pc' = "return"
    /\ obs' = [obs EXCEPT !.interrupted = TRUE, !.stopped = TRUE]
    /\ UNCHANGED <<now, taskObj, schedObj, tasks, schedules, run, slice, idx, button, tilt>>

\* The program adds Tasks to event_loop.tasks itself and runs the loop.
Next ==
    \/ Advance
    \/ \E f \in Functions, p \in Priorities : CreateTask(f, p)
    \/ \E id \in 1..Len(taskObj) : AppendTask(id)
    \/ \E l \in Limits : Loop(l)
    \/ \E l \in Limits, e \in BOOLEAN : LoopForever(l, e)
    \/ ForeverTick
    \/ CallTask
    \/ LoopEnd
    \/ Return

Spec == Init /\ [][Next]_vars

\* loop_forever is a while True statement: once begun, its steps keep coming.
FairSpec == Spec /\ WF_vars(ForeverTick \/ CallTask \/ LoopEnd \/ Return)

\* The program registers schedule descriptors, drives its Countdowns and calls
\* loop(); every Task comes from a descriptor.
SchedNext ==
    \/ Advance
    \/ \E f \in ScheduledFunctions, d \in Durations : EventLoop_timeout(f, d, 0)
    \/ \E f \in ScheduledFunctions, d \in Durations, b \in BOOLEAN, i \in BOOLEAN :
          EventLoop_interval(f, d, 0, b, i)
    \/ \E f \in ScheduledFunctions, d \in Durations : AppendCountdown(f, d, 0)
    \/ \E c \in Countdowns : Countdown_pause(c)
    \/ \E c \in Countdowns : Countdown_resume(c)
    \/ \E c \in Countdowns : Countdown_reset(c)
    \/ \E c \in Countdowns : Countdown_restart(c)
    \/ Loop(None)
    \/ CallTask
    \/ LoopEnd
    \/ Return

SchedSpec == Init /\ [][SchedNext]_vars

\* The program adds Tasks itself, calls loop() and cancels Tasks, between
\* ticks and from the functions of its Tasks.
CancelNext ==
    \/ Advance
    \/ \E f \in ScheduledFunctions, p \in Priorities : CreateTask(f, p)
    \/ \E id \in 1..Len(taskObj) : AppendTask(id)
    \/ \E id \in 1..Len(taskObj) : EventLoop_cancel(id)
    \/ \E l \in Limits : Loop(l)
    \/ \E l \in Limits : LoopForever(l, TRUE)
    \/ ForeverTick
    \/ CallTask
    \/ LoopEnd
    \/ Return

CancelSpec == Init /\ [][CancelNext]_vars

\* The program registers one blocking Interval, adds Tasks of its own, calls
\* loop() and cancels Tasks, between ticks and from the functions of its Tasks.
StallNext ==
    \/ Advance
    \/ \E f \in ScheduledFunctions, d \in Durations, i \in BOOLEAN :
          schedObj = <<>> /\ EventLoop_interval(f, d, 0, TRUE, i)
    \/ \E p \in Priorities : CreateTask(PlainFunction, p)
    \/ \E id \in 1..Len(taskObj) : AppendTask(id)
    \/ \E id \in 1..Len(taskObj) : EventLoop_cancel(id)
    \/ Loop(None)
    \/ CallTask
    \/ LoopEnd
    \/ Return

StallSpec == Init /\ [][StallNext]_vars

\* The program adds Tasks whose functions raise no error and runs the loop.
GeneratorNext ==
    \/ Advance
    \/ \E f \in ErrorFreeFunctions, p \in Priorities : CreateTask(f, p)
    \/ \E id \in 1..Len(taskObj) : AppendTask(id)
    \/ \E l \in Limits : Loop(l)
    \/ \E l \in Limits : LoopForever(l, TRUE)
    \/ ForeverTick
    \/ CallTask
    \/ LoopEnd
    \/ Return

GeneratorSpec == Init /\ [][GeneratorNext]_vars

\* The program adds Tasks itself and calls loop_forever; the user may press
\* Ctrl-C at any moment of it.
InterruptNext ==
    \/ Advance
    \/ \E f \in ScheduledFunctions, p \in Priorities : CreateTask(f, p)
    \/ \E id \in 1..Len(taskObj) : AppendTask(id)
    \/ \E l \in Limits, e \in BOOLEAN : LoopForever(l, e)
    \/ ForeverTick
    \/ CallTask
    \/ LoopEnd
    \/ Return
    \/ KeyboardInterruptInStep
    \/ KeyboardInterruptElsewhere

InterruptSpec == Init /\ [][InterruptNext]_vars

\* ------------------------------------------------- the button and its caller

\* the min_time, max_time and timeout arguments of wait_for_hold
WaitArguments == {None} \cup Durations

\* what the variables of the event loop do in a step of the button
EventLoopUnchanged ==
    UNCHANGED <<taskObj, schedObj, tasks, schedules, pc, run, slice, idx, obs>>

\* the user presses or releases the button
PinChange ==
    /\ button' = [button EXCEPT
                    !.pressed = ~@,
                    !.pending = /\ ~button.pressed
                                /\ button.query # "none"
                                /\ ~button.currently_pressed]
    /\ EventLoopUnchanged
    /\ UNCHANGED <<now, tilt>>

\* button.wait_for_hold(min_time, max_time, timeout) up to the while statement
\* of _wait_for_condition: the defaults and start_time = monotonic()
WaitForHold(min_time, max_time, timeout) ==
    /\ button.call = "idle"
    /\ button' = [button EXCEPT
                    !.call = "condition",
                    !.min_time = OrZero(min_time),
                    !.max_time = IF max_time = None \/ max_time = 0
                                 THEN DefaultMaxTime ELSE max_time,
                    !.timeout = timeout,
                    !.start_time = now,
                    !.result = FALSE]
    /\ EventLoopUnchanged
    /\ UNCHANGED <<now, tilt>>

\* the condition of wait_for_hold on the hold_time it has read
HoldCondition(hold_time) ==
    button.min_time < hold_time /\ hold_time < button.max_time

\* what _wait_for_condition does when its condition has given the value met
AfterCondition(met) ==
    IF met THEN [button EXCEPT !.call = "returned", !.result = TRUE,
                               !.hold_start_time = None]
    ELSE [button EXCEPT !.call = "timeout", !.hold_start_time = None]

\* hold_time is read: 0 at once when the button is not pressed; otherwise
\* hold_start_time = monotonic() and its while statement begins
HoldTime ==
    /\ button.call = "condition"
    /\ button' = IF ~button.pressed THEN AfterCondition(HoldCondition(0))
                 ELSE [button EXCEPT !.call = "holding", !.hold_start_time = now]
    /\ EventLoopUnchanged
    /\ UNCHANGED <<now, tilt>>

\* while self.pressed: pass
HoldTimeSpin ==
    /\ button.call = "holding"
    /\ button.pressed
    /\ button' = [button EXCEPT !.spin = 1 - @]
    /\ EventLoopUnchanged
    /\ UNCHANGED <<now, tilt>>

\* the while of hold_time ends: return monotonic() - hold_start_time
HoldTimeReturn ==
    /\ button.call = "holding"
    /\ ~button.pressed
    /\ button' = AfterCondition(HoldCondition(now - button.hold_start_time))
    /\ EventLoopUnchanged
    /\ UNCHANGED <<now, tilt>>

\* if timeout is not None and start_time + timeout < monotonic(): return False
TimeoutCheck ==
    /\ button.call = "timeout"
    /\ button' = IF button.timeout # None /\ button.start_time + button.timeout < now
                 THEN [button EXCEPT !.call = "returned", !.result = FALSE]
                 ELSE [button EXCEPT !.call = "condition"]
    /\ EventLoopUnchanged
    /\ UNCHANGED <<now, tilt>>

\* the caller has the result of wait_for_hold
WaitReturn ==
    /\ button.call = "returned"
    /\ button' = [button EXCEPT
                    !.call = "idle", !.min_time = None, !.max_time = None,
                    !.timeout = None, !.start_time = None,
                    !.hold_start_time = None, !.result = FALSE, !.spin = 0]
    /\ EventLoopUnchanged
    /\ UNCHANGED <<now, tilt>>

\* The program calls wait_for_hold on a button the user presses and releases.
ButtonNext ==
    \/ Advance
    \/ PinChange
    \/ \E a, b, t \in WaitArguments : WaitForHold(a, b, t)
    \/ HoldTime
    \/ HoldTimeSpin
    \/ HoldTimeReturn
    \/ TimeoutCheck
    \/ WaitReturn

\* wait_for_hold is straight-line code and two while statements: its steps
\* keep coming, and the clock keeps running.  The while of hold_time reads the
\* pin far more often than a user can move it: a button released again and
\* again is seen released.
ButtonSpec ==
    /\ Init
    /\ [][ButtonNext]_vars
    /\ WF_vars(HoldTime \/ HoldTimeSpin \/ HoldTimeReturn \/ TimeoutCheck \/ WaitReturn)
    /\ SF_vars(HoldTimeReturn)
    /\ WF_vars(Advance)

\* The program registers one Countdown, drives it and calls loop().
CountdownNext ==
    \/ Advance
    \/ \E f \in ScheduledFunctions, d \in Durations :
          schedObj = <<>> /\ AppendCountdown(f, d, 0)
    \/ \E c \in Countdowns : Countdown_pause(c)
    \/ \E c \in Countdowns : Countdown_resume(c)
    \/ \E c \in Countdowns : Countdown_reset(c)
    \/ \E c \in Countdowns : Countdown_restart(c)
    \/ Loop(None)
    \/ CallTask
    \/ LoopEnd
    \/ Return

CountdownSpec == Init /\ [][CountdownNext]_vars

\* the program reads button.clicked
Clicked ==
    /\ button.call = "idle"
    /\ button' = LET b == Update(button)
                 IN [b EXCEPT !.query = "clicked",
                              !.answer = ~b.previously_pressed /\ b.currently_pressed,
                              !.owed = button.pending,
                              !.pending = FALSE]
    /\ EventLoopUnchanged
    /\ UNCHANGED <<now, tilt>>

\* the program reads button.released
Released ==
    /\ button.call = "idle"
    /\ button' = LET b == Update(button)
                 IN [b EXCEPT !.query = "released",
                              !.answer = b.previously_pressed /\ ~b.currently_pressed,
                              !.owed = FALSE]
    /\ EventLoopUnchanged
    /\ UNCHANGED <<now, tilt>>

\* The program reads clicked and released, and calls wait_for_hold, on a
\* button the user presses and releases.
QueryNext ==
    \/ Advance
    \/ PinChange
    \/ Clicked
    \/ Released
    \/ \E a, b, t \in WaitArguments : WaitForHold(a, b, t)
    \/ HoldTime
    \/ HoldTimeSpin
    \/ HoldTimeReturn
    \/ TimeoutCheck
    \/ WaitReturn

QuerySpec == Init /\ [][QueryNext]_vars

\* ------------------------------------------------------- the accelerometer

\* an accelerometer reading and a tolerance are at hand
TiltInit ==
    /\ Constructed
    /\ tilt \in { Reading(x, y, z, t) : x \in AxisValues, y \in AxisValues,
                                        z \in AxisValues, t \in Tolerances }

\* BNO055_Tilt_Direction.from_acceleration(x, y, z, tolerance) is called
FromAccelerationCall ==
    /\ tilt.direction = NoDirection
    /\ tilt' = [tilt EXCEPT
                  !.direction = FromAcceleration(tilt.x, tilt.y, tilt.z, tilt.tolerance)]
    /\ EventLoopUnchanged
    /\ UNCHANGED <<now, button>>

TiltNext == FromAccelerationCall

TiltSpec == TiltInit /\ [][TiltNext]_vars

\* ------------------------------------------------------------ properties

\* the position of id in list (0: not in it)
IndexOf(list, id) ==
    IF id \in Range(list) THEN CHOOSE i \in 1..Len(list) : list[i] = id ELSE 0

\* the Tasks descriptor s has produced
Produced(s) == { t \in 1..Len(taskObj) : taskObj[t].producer = s }

StepLog == obs.stepLog

\* C1: of two Tasks stepped in the same tick, the one with the higher priority
\* is stepped first: no Task is stepped before one of a higher priority.
C1_HigherPriorityFirst ==
    \A i, j \in 1..Len(StepLog) :
        i < j => taskObj[StepLog[i]].priority >= taskObj[StepLog[j]].priority

\* C1 witness: two Tasks were stepped in one tick, the one of the higher
\* priority first although it stood behind the other in the list before the sort.
C1_Witness ==
    \E i, j \in 1..Len(StepLog) :
        /\ i < j
        /\ taskObj[StepLog[i]].priority > taskObj[StepLog[j]].priority
        /\ IndexOf(obs.presort, StepLog[i]) > IndexOf(obs.presort, StepLog[j])
        /\ IndexOf(obs.presort, StepLog[j]) > 0

\* C2: of two Tasks of equal priority stepped in the same tick, the one created
\* earlier is stepped first: no Task is stepped before an older one of its priority.
C2_FirstCreatedFirst ==
    \A i, j \in 1..Len(StepLog) :
        (i < j /\ taskObj[StepLog[i]].priority = taskObj[StepLog[j]].priority)
            => taskObj[StepLog[i]].time_created <= taskObj[StepLog[j]].time_created

\* C2 witness: two Tasks of equal priority were stepped in one tick, the older
\* first although it stood behind the younger in the list before the sort.
C2_Witness ==
    \E i, j \in 1..Len(StepLog) :
        /\ i < j
        /\ taskObj[StepLog[i]].priority = taskObj[StepLog[j]].priority
        /\ taskObj[StepLog[i]].time_created < taskObj[StepLog[j]].time_created
        /\ IndexOf(obs.presort, StepLog[i]) > IndexOf(obs.presort, StepLog[j])
        /\ IndexOf(obs.presort, StepLog[j]) > 0

Timeouts == { s \in 1..Len(schedObj) : schedObj[s].kind = "Timeout" }

\* C3: a Timeout produces at most one Task, none before time_created + timeout;
\* once it has produced one it is not in EventLoop.schedules; and a tick that
\* examined it when it was ready has produced its Task.
C3_TimeoutFiresOnce ==
    \A s \in Timeouts :
        /\ Cardinality(Produced(s)) <= 1
        /\ \A t \in Produced(s) :
              taskObj[t].time_created >= schedObj[s].time_created + schedObj[s].timeout
        /\ Produced(s) # {} => s \notin Range(schedules)
        /\ (s \in obs.examined
              /\ obs.tickTime >= schedObj[s].time_created + schedObj[s].timeout)
           => Cardinality(Produced(s)) = 1

\* C3 witness: a Timeout with a positive timeout was examined before it was
\* ready in some tick, has since produced its Task and left the schedules, and
\* a later tick has run without it.
C3_Witness ==
    \E s \in Timeouts :
        /\ schedObj[s].timeout > 0
        /\ Cardinality(Produced(s)) = 1
        /\ s \notin Range(schedules)
        /\ pc = "return"
        /\ s \notin obs.fired

BlockingIntervals ==
    { s \in 1..Len(schedObj) : schedObj[s].kind = "Interval" /\ schedObj[s].blocking }

\* C4: of the Tasks a blocking Interval has produced at most one is not
\* completed, and each was created when every earlier one was completed and at
\* least `interval` after its time_completed.
C4_BlockingIntervalOneOutstanding ==
    \A s \in BlockingIntervals :
        /\ Cardinality({ t \in Produced(s) : ~taskObj[t].completed }) <= 1
        /\ \A p, t \in Produced(s) :
              p < t => /\ taskObj[p].completed
                       /\ taskObj[t].time_created >=
                            taskObj[p].time_completed + schedObj[s].interval

\* C4 witness: a blocking Interval with a positive interval has produced a
\* second Task after a first one that took two ticks to complete.
C4_Witness ==
    \E s \in BlockingIntervals :
        /\ schedObj[s].interval > 0
        /\ schedObj[s].function.gen
        /\ Cardinality(Produced(s)) = 2

\* C5: when a tick ends, with or without an error, every Task of the slice due
\* in that tick has been stepped.
C5_EveryDueTaskStepped ==
    pc = "return" => Range(slice) \subseteq Range(StepLog)

\* C6: a Task whose step raised an error is completed in that step, and with
\* raise_errors the error leaves loop() and loop_forever().
C6_ErrorCompletesAndPropagates ==
    obs.fault # 0 =>
        /\ taskObj[obs.fault].completed
        /\ run.raise_errors => obs.escaped

\* a tick of loop_forever(limit=None, raise_errors=False) ended by an error
\* of another Task while Task t was live in the active set
LenientFault(t) ==
    /\ pc = "return"
    /\ run.forever /\ ~run.raise_errors /\ run.limit = None
    /\ obs.raised
    /\ t \in Range(tasks)
    /\ t # obs.fault
    /\ ~taskObj[t].completed

\* Task t has been stepped in the tick in progress
SteppedInTick(t) == pc = "call" /\ t \in Range(StepLog)

\* C7: under loop_forever(raise_errors=False), after a Task step raised an
\* error every other live Task of the active set is stepped in a later tick.
C7_OthersKeepProgressing ==
    \A t \in 1..MaxTasks : LenientFault(t) ~> SteppedInTick(t)

\* C8: every descriptor that was ready when the tick began has been
\* materialized by that tick's _schedule_tasks.
C8_EveryReadyMaterialized ==
    obs.readyAtStart \subseteq obs.fired

Intervals == { s \in 1..Len(schedObj) : schedObj[s].kind = "Interval" }

\* C9: an Interval created with immediate=True and not fired yet (its
\* time_last_called is still None) is ready, whatever the clock says.
C9_ImmediateIsReady ==
    \A s \in Intervals :
        schedObj[s].time_last_called = None
            => IntervalReady(schedObj[s], taskObj, now).ready

\* C10 as claimed: a Countdown that is COMPLETED stays COMPLETED.
C10_CompletedIsTerminal ==
    [][ \A c \in Countdowns :
          schedObj[c].state = COMPLETED => schedObj'[c].state = COMPLETED ]_vars

\* C10 amended: a COMPLETED Countdown leaves COMPLETED only in a step of
\* reset() or restart(); pause(), resume() and ticks leave it COMPLETED, and
\* while COMPLETED it is not ready.
C10_OnlyResetRearms ==
    [][ \A c \in Countdowns :
          schedObj[c].state = COMPLETED =>
            /\ ~CountdownReady(schedObj[c], now)
            /\ schedObj'[c].state # COMPLETED =>
                  (Countdown_reset(c) \/ Countdown_restart(c)) ]_vars

\* C10 witness: a Countdown that produced its Task is still COMPLETED after a
\* pause() or resume() call and a later tick that examined it and did not fire it.
C10_Witness ==
    \E c \in Countdowns :
        /\ schedObj[c].state = COMPLETED
        /\ schedObj[c].touched
        /\ pc = "return"
        /\ c \in obs.examined
        /\ c \notin obs.fired

\* C11: while PAUSED a Countdown is not ready, whatever the clock says; and
\* a resume() of a Countdown that a pause() took from WAITING leaves it with
\* the eta it had just before that pause().
C11_PauseResumePreservesEta ==
    [][ \A c \in Countdowns :
          /\ schedObj[c].state = PAUSED => ~CountdownReady(schedObj[c], now)
          /\ ( /\ schedObj[c].state = PAUSED
               /\ schedObj[c].paused_eta # None
               /\ Countdown_resume(c) )
             => CountdownEta(schedObj'[c], now') = schedObj[c].paused_eta ]_vars

\* C11 witness: a Countdown paused with time remaining and resumed later is
\* WAITING with that remaining time, its deadline moved by the length of the pause.
C11_Witness ==
    \E c \in Countdowns :
        /\ schedObj[c].state = WAITING
        /\ schedObj[c].paused_eta # None
        /\ schedObj[c].paused_eta > 0
        /\ CountdownEta(schedObj[c], now) = schedObj[c].paused_eta
        /\ schedObj[c].time_to_run_at >
              schedObj[c].time_created + schedObj[c].initial_timer

\* the eta a Countdown had when it was constructed
EtaAtConstruction(s) ==
    CountdownEta(Countdown(s.id, s.function, s.initial_timer, s.priority,
                           s.time_created), s.time_created)

\* C12: whatever went before, reset() leaves a Countdown PAUSED with its initial
\* timer as the remaining time, and restart() at time t leaves it WAITING with
\* the deadline t + initial timer, its eta at that instant being the eta it had
\* at construction.
C12_ResetRestartInitialTimer ==
    [][ \A c \in Countdowns :
          /\ Countdown_reset(c) =>
                /\ schedObj'[c].state = PAUSED
                /\ schedObj'[c].timer = schedObj[c].initial_timer
                /\ ~CountdownReady(schedObj'[c], now')
          /\ Countdown_restart(c) =>
                /\ schedObj'[c].state = WAITING
                /\ schedObj'[c].time_to_run_at = now' + schedObj[c].initial_timer
                /\ CountdownEta(schedObj'[c], now') = EtaAtConstruction(schedObj[c]) ]_vars

\* C12 witness: a Countdown that has fired, so was COMPLETED, is WAITING again
\* at a later time with the deadline now + initial timer.
C12_Witness ==
    \E c \in Countdowns :
        /\ Produced(c) # {}
        /\ schedObj[c].state = WAITING
        /\ schedObj[c].initial_timer > 0
        /\ now > schedObj[c].time_created
        /\ schedObj[c].time_to_run_at = now + schedObj[c].initial_timer

\* C13 as claimed: no Task is stepped after a cancel of its id has returned.
C13_CancelledNeverStepped == obs.late = {}

\* C13 amended: a Task whose cancel has returned is not in the active set, and
\* the only tick whose slice holds it is the tick during which it was cancelled.
C13_CancelledLeavesActiveSet ==
    \A id \in 1..Len(taskObj) :
        taskObj[id].cancelled =>
            /\ id \notin Range(tasks)
            /\ id \in Range(slice) => id \in obs.cancelled

\* C13 witness: a Task cancelled in an earlier tick or between ticks is still
\* live, and a later tick has stepped another Task without it.
C13_Witness ==
    \E id \in 1..Len(taskObj) :
        /\ taskObj[id].cancelled
        /\ ~taskObj[id].completed
        /\ taskObj[id].started
        /\ id \notin obs.cancelled
        /\ pc = "return"
        /\ StepLog # <<>>
        /\ id \notin Range(StepLog)

\* C14: a KeyboardInterrupt raised while loop_forever runs ends the tick and
\* reaches the except KeyboardInterrupt, so that loop_forever returns normally.
C14_InterruptStopsLoopForever ==
    obs.interrupted => (pc = "return" /\ obs.stopped /\ ~obs.escaped)

\* C15: when a loop() call ends, by a return or by an error, no Task of the
\* active set is completed, and every Task the call took out of the active
\* set is completed.
C15_NoCompletedAtTickBoundary ==
    pc = "return" =>
        /\ \A id \in Range(tasks) : ~taskObj[id].completed
        /\ \A id \in Range(obs.presort) \ Range(tasks) : taskObj[id].completed

\* the instant a descriptor is due: creation plus timeout, last call (or 0)
\* plus interval, the Countdown's _time_to_run_at
Deadline(s) ==
    CASE s.kind = "Timeout" -> s.time_created + s.timeout
      [] s.kind = "Interval" -> OrZero(s.time_last_called) + s.interval
      [] s.kind = "Countdown" -> s.time_to_run_at

\* the time left until instant d at time t, none once d has passed
TimeLeft(d, t) == IF t >= d THEN 0 ELSE d - t

\* C16 as claimed: for every descriptor, in every state and at every clock
\* value, eta is the time left until its deadline and it is ready exactly when
\* its eta is 0.
C16_ReadyIffEtaZero ==
    \A s \in 1..Len(schedObj) :
        /\ Eta(schedObj[s], now) = TimeLeft(Deadline(schedObj[s]), now)
        /\ Ready(schedObj[s], taskObj, now).ready <=> Eta(schedObj[s], now) = 0

\* a blocking Interval that holds the Task it produced last
Holding(s) == s.kind = "Interval" /\ s.blocking /\ s.blocking_task # None

\* C16 amended: eta is the time left until the deadline and ready means
\* eta = 0 for a Timeout, for an Interval that holds no blocking Task and for a
\* WAITING Countdown.  A Countdown that is not WAITING has eta None and is not
\* ready.  A blocking Interval that holds a Task has the same eta, but it is
\* not ready while that Task is not completed, and once it is completed it is
\* ready exactly from time_completed + interval on.
C16_ReadyIffEtaZeroWhenArmed ==
    \A i \in 1..Len(schedObj) :
        LET s == schedObj[i]
            ready == Ready(s, taskObj, now).ready
        IN /\ s.kind = "Countdown" /\ s.state # WAITING =>
                 Eta(s, now) = None /\ ~ready
           /\ ~(s.kind = "Countdown" /\ s.state # WAITING) =>
                 /\ Eta(s, now) = TimeLeft(Deadline(s), now)
                 /\ ~Holding(s) => (ready <=> Eta(s, now) = 0)
           /\ Holding(s) =>
                 ready <=> /\ taskObj[s.blocking_task].completed
                           /\ now >= taskObj[s.blocking_task].time_completed + s.interval

\* C16 witness: a blocking Interval with a positive interval holds a Task that
\* is not completed; its eta is 0 and it is not ready.
C16_Witness ==
    \E i \in Intervals :
        /\ Holding(schedObj[i])
        /\ schedObj[i].interval > 0
        /\ ~taskObj[schedObj[i].blocking_task].completed
        /\ Eta(schedObj[i], now) = 0
        /\ ~Ready(schedObj[i], taskObj, now).ready

\* C17: for every Task, completed implies started; started and completed never
\* go from True to False; time_created <= time_started <= time_completed
\* whenever they are set; and no timestamp moves once it is set.
C17_TaskLifecycleMonotone ==
    [][ \A id \in 1..Len(taskObj) :
          LET a == taskObj[id]
              b == taskObj'[id]
          IN /\ a.completed => a.started
             /\ a.started => b.started
             /\ a.completed => b.completed
             /\ a.time_started # None => a.time_created <= a.time_started
             /\ a.time_completed # None =>
                   a.time_started # None /\ a.time_started <= a.time_completed
             /\ b.time_created = a.time_created
             /\ a.time_started # None => b.time_started = a.time_started
             /\ a.time_completed # None => b.time_completed = a.time_completed ]_vars

\* C18: a wait_for_hold call with a timeout returns; the calls looked at are
\* those whose timeout ends before the clock of the model does.
C18_WaitForHoldReturns ==
    ( /\ button.call \in {"condition", "holding", "timeout"}
      /\ button.timeout # None
      /\ button.start_time + button.timeout < MaxTime )
        ~> button.call = "returned"

\* the zone of the value v of an axis under the tolerance t > 0
Zone(v, t) ==
    IF v >= t THEN "upper" ELSE IF v <= -t THEN "lower" ELSE "middle"

Zones == {"upper", "middle", "lower"}

\* a value of the given zone
InZone(zone, t) ==
    CASE zone = "upper" -> t [] zone = "middle" -> 0 [] zone = "lower" -> -t

\* the labels of class Direction but UNKNOWN
Labels == { Direction[k] : k \in DOMAIN Direction } \ {Direction.UNKNOWN}

\* C19: the Direction from_acceleration returns is decided by the zones of the
\* three axes: UNKNOWN exactly when all three are in the middle zone, otherwise
\* one of the 26 labels, the label of that triple of zones and of no other;
\* with the default tolerance (0, 0, 9.68) is "up" and (0, 0, 0) is "unknown".
C19_ZonesDecideDirection ==
    tilt.direction # NoDirection =>
        LET t == IF tilt.tolerance = None THEN DEFAULT_TOLERANCE ELSE tilt.tolerance
            zones == <<Zone(tilt.x, t), Zone(tilt.y, t), Zone(tilt.z, t)>>
            Of(zs) == FromAcceleration(InZone(zs[1], t), InZone(zs[2], t),
                                       InZone(zs[3], t), tilt.tolerance)
        IN /\ Cardinality(Labels) = 26
           /\ tilt.direction = Direction.UNKNOWN <=> zones = <<"middle", "middle", "middle">>
           /\ tilt.direction # Direction.UNKNOWN => tilt.direction \in Labels
           /\ \A zs \in Zones \X Zones \X Zones :
                 (Of(zs) = tilt.direction) <=> (zs = zones)
           /\ (tilt.tolerance = None /\ tilt.x = 0 /\ tilt.y = 0) =>
                 /\ tilt.z = Gravity => tilt.direction = "up"
                 /\ tilt.z = 0 => tilt.direction = "unknown"

\* C19 witness: from_acceleration(0, 0, 9.68) has returned "up".
C19_Witness ==
    /\ tilt.tolerance = None
    /\ tilt.x = 0 /\ tilt.y = 0 /\ tilt.z = Gravity
    /\ tilt.direction = Direction.UP

\* the first n elements of list, all of it when it has fewer
FirstN(list, n) == SubSeq(list, 1, IF n < Len(list) THEN n ELSE Len(list))

\* C20: when a loop(limit) call ends without an error, the Tasks it stepped
\* are the first min(limit, size) Tasks of the sorted active set, each once and
\* in that order, and all of them when limit is None.
C20_ExactlyTheSliceStepped ==
    (pc = "return" /\ ~obs.raised) =>
        LET sorted == SortReverse(obs.presort, taskObj)
        IN StepLog = IF run.limit = None THEN sorted ELSE FirstN(sorted, run.limit)

\* C20 witness: loop(limit=1) has ended without an error on an active set of
\* two Tasks, having stepped only the one the sort put first, which stood
\* second before the sort.
C20_Witness ==
    /\ pc = "return"
    /\ ~obs.raised
    /\ run.limit = 1
    /\ Len(obs.presort) = 2
    /\ StepLog = <<obs.presort[2]>>

\* C21: a Task whose function raises no error has run one segment per step:
\* with a generator of k yields it is in progress, k at most segments run and
\* as many as steps taken, after each of its first k steps, and completed by
\* step k + 1; with a plain function it is completed by its first step.
C21_OneSegmentPerStep ==
    \A id \in 1..Len(taskObj) :
        LET t == taskObj[id]
            k == t.function.yields
        IN t.function.err = 0 =>
             /\ t.started <=> t.steps > 0
             /\ IF t.function.gen
                THEN /\ t.completed <=> t.steps = k + 1
                     /\ (t.started /\ ~t.completed) =>
                           (t.current_call = t.steps /\ t.steps <= k)
                ELSE t.completed <=> t.steps = 1

\* C21 witness: a generator Task of MaxYields yields has been completed by its
\* step MaxYields + 1, in a later tick than the one that started it.
C21_Witness ==
    \E id \in 1..Len(taskObj) :
        /\ taskObj[id].function.gen
        /\ taskObj[id].function.yields = MaxYields
        /\ taskObj[id].completed
        /\ taskObj[id].steps = MaxYields + 1
        /\ taskObj[id].time_completed > taskObj[id].time_started

\* C22: a Task that is completed is not stepped again, so that its function
\* is invoked once at most: no step of a tick is a call() of a completed Task.
C22_CompletedNeverSteppedAgain ==
    [][ \A id \in 1..Len(taskObj) :
          taskObj[id].completed => obs'.stepLog # Append(obs.stepLog, id) ]_vars

\* the blocking Interval i holds a Task that was cancelled and is not completed
CancelledHeld(i) ==
    /\ Holding(schedObj[i])
    /\ taskObj[schedObj[i].blocking_task].cancelled
    /\ ~taskObj[schedObj[i].blocking_task].completed

\* the Tasks the for statement of the tick in progress has still to step
StillDue == { slice[j] : j \in idx..Len(slice) }

\* C23 as claimed: once the un-completed Task a blocking Interval holds has
\* been cancelled, the Interval is not ready, then or at any later moment.
C23_CancelledBlocksForever ==
    [][ \A i \in BlockingIntervals :
          CancelledHeld(i) =>
            /\ ~Ready(schedObj[i], taskObj, now).ready
            /\ ~Ready(schedObj'[i], taskObj', now').ready ]_vars

\* C23 amended: the same of a cancelled Task that the tick in progress has
\* not still to step; such an Interval stays as it is, holding that Task, not
\* ready and producing nothing, whatever the clock says.
C23_CancelledAndNotDueBlocksForever ==
    [][ \A i \in BlockingIntervals :
          (CancelledHeld(i) /\ schedObj[i].blocking_task \notin StillDue) =>
            /\ ~Ready(schedObj[i], taskObj, now).ready
            /\ ~Ready(schedObj'[i], taskObj', now').ready
            /\ schedObj'[i] = schedObj[i]
            /\ ~taskObj'[schedObj[i].blocking_task].completed
            /\ schedObj[i].blocking_task \notin { slice'[j] : j \in idx'..Len(slice') }
            /\ { t \in 1..Len(taskObj') : taskObj'[t].producer = i } = Produced(i) ]_vars

\* C23 witness: a blocking Interval holds a Task that was started, then
\* cancelled before it completed; its eta is 0 and a later tick has examined it
\* and has not fired it.
C23_Witness ==
    \E i \in BlockingIntervals :
        /\ CancelledHeld(i)
        /\ taskObj[schedObj[i].blocking_task].started
        /\ Eta(schedObj[i], now) = 0
        /\ now > taskObj[schedObj[i].blocking_task].time_started
        /\ pc = "return"
        /\ i \in obs.examined
        /\ i \notin obs.fired
        /\ obs.cancelled = {}

\* C24: the clicked read next after the pin became pressed, when the most
\* recent sample was not pressed and the pin has stayed pressed, returns True,
\* whatever reads of released came between.
C24_PressReportedByClicked ==
    (button.query = "clicked" /\ button.owed) => button.answer

====
